---- MODULE Spec2Model ----
(***************************************************************************)
(* Model of rename_zlibrary_2025-08-19.py: a file renamer that deletes or  *)
(* replaces a phrase in file names.                                        *)
(*                                                                         *)
(* A file name, a phrase and a replacement text are sequences of           *)
(* characters; a character is a one-element token: an ASCII character      *)
(* stands for itself, any other code point is written "uXXXX".             *)
(***************************************************************************)
EXTENDS Naturals, Sequences, FiniteSets

\* ------------------------------------------------------------------------
\* Bounds of the model
\* ------------------------------------------------------------------------
MaxNameLen == 4
MaxHyphenNameLen == 3
MaxPhraseLen == 2
MaxReplLen == 2
MaxFiles == 2

\* ------------------------------------------------------------------------
\* Characters
\* ------------------------------------------------------------------------

\* The nine code points of HYPHENS_CLASS: - and U+2010 U+2011 U+2012 U+2013
\* U+2014 U+2212 U+FE63 U+FF0D.
HYPHENS_CLASS ==
    {"-", "u2010", "u2011", "u2012", "u2013", "u2014", "u2212", "uFE63", "uFF0D"}

\* What \s matches in a str pattern, and what str.isspace and str.strip take
\* for whitespace (the members that occur in the model's alphabets: space,
\* tab, NBSP, narrow NBSP).
WHITESPACE == {" ", "u0009", "u00A0", "u202F"}

\* [\s  ]
SPACES_CLASS == WHITESPACE \cup {"u00A0", "u202F"}

\* The letters of the model's alphabets (string.ascii_letters restricted).
ASCII_LETTERS == {"a", "A", "x"}

\* Simple case folding, as re.IGNORECASE compares characters.
Lower(c) ==
    CASE c = "A" -> "a"
      [] c = "uFF21" -> "uFF41"
      [] OTHER -> c

\* unicodedata.normalize("NFKC", c) for one code point.
NFKCChar(c) ==
    CASE c = "uFF21" -> <<"A">>
      [] c = "uFF41" -> <<"a">>
      [] c = "uFF0D" -> <<"-">>
      [] c = "uFE63" -> <<"-">>
      [] c = "u2011" -> <<"u2010">>
      [] c = "u00A0" -> <<" ">>
      [] c = "u202F" -> <<" ">>
      [] OTHER -> <<c>>

RECURSIVE NFKC(_)
NFKC(s) == IF s = <<>> THEN <<>> ELSE NFKCChar(Head(s)) \o NFKC(Tail(s))

\* ------------------------------------------------------------------------
\* normalize_spaces
\* ------------------------------------------------------------------------

\* Length of the maximal run of characters of cls that starts at s[i].
RECURSIVE RunLen(_, _, _)
RunLen(s, i, cls) ==
    IF i > Len(s) \/ s[i] \notin cls THEN 0 ELSE 1 + RunLen(s, i + 1, cls)

\* re.sub("[cls]{minLen,}", " ", s) from position i on: every maximal run of
\* at least minLen characters of cls becomes one ASCII space.
RECURSIVE CollapseRuns(_, _, _, _)
CollapseRuns(s, i, cls, minLen) ==
    IF i > Len(s) THEN <<>>
    ELSE LET n == RunLen(s, i, cls)
         IN  IF n >= minLen /\ n > 0
             THEN <<" ">> \o CollapseRuns(s, i + n, cls, minLen)
             ELSE <<s[i]>> \o CollapseRuns(s, i + 1, cls, minLen)

\* re.sub(r"\s+\.", ".", s) from position i on: whitespace followed by a
\* period becomes the period.
RECURSIVE DropSpaceBeforeDot(_, _)
DropSpaceBeforeDot(s, i) ==
    IF i > Len(s) THEN <<>>
    ELSE LET n == RunLen(s, i, WHITESPACE)
         IN  IF n > 0 /\ i + n <= Len(s) /\ s[i + n] = "."
             THEN <<".">> \o DropSpaceBeforeDot(s, i + n + 1)
             ELSE <<s[i]>> \o DropSpaceBeforeDot(s, i + 1)

\* str.strip()
RECURSIVE LStrip(_)
LStrip(s) == IF s # <<>> /\ Head(s) \in WHITESPACE THEN LStrip(Tail(s)) ELSE s

RECURSIVE RStrip(_)
RStrip(s) ==
    IF s # <<>> /\ s[Len(s)] \in WHITESPACE
    THEN RStrip(SubSeq(s, 1, Len(s) - 1)) ELSE s

Strip(s) == RStrip(LStrip(s))

normalize_spaces(name) ==
    LET n1 == CollapseRuns(name, 1, SPACES_CLASS, 1)
        n2 == CollapseRuns(n1, 1, WHITESPACE, 2)
        n3 == DropSpaceBeforeDot(n2, 1)
    IN  Strip(n3)

\* ------------------------------------------------------------------------
\* build_pattern: a compiled pattern is a sequence of atoms, each the set of
\* characters it accepts, and the IGNORECASE flag.
\* ------------------------------------------------------------------------

\* The loop body without the hyphen branch: a hyphen is matched literally.
LooseAtomNoHyphen(ch) ==
    IF ch \in WHITESPACE \/ ch \in {"u00A0", "u202F"} THEN SPACES_CLASS
    ELSE {ch}

\* The loop body of build_pattern for one character of the phrase.
LooseAtom(ch) ==
    IF ch \in HYPHENS_CLASS THEN HYPHENS_CLASS
    ELSE IF ch \in WHITESPACE \/ ch \in {"u00A0", "u202F"} THEN SPACES_CLASS
    ELSE {ch}

build_pattern(phrase, ignore_case, loose) ==
    IF ~loose
    THEN [atoms |-> [i \in 1..Len(phrase) |-> {phrase[i]}], ic |-> ignore_case]
    ELSE LET p == NFKC(phrase)
         IN  [atoms |-> [i \in 1..Len(p) |-> LooseAtom(p[i])], ic |-> ignore_case]

\* One atom against one character.
AtomMatches(atom, c, ic) ==
    c \in atom \/ (ic /\ \E d \in atom : Lower(d) = Lower(c))

\* The pattern matches s at position i (pattern.match(s, i - 1)).
MatchesAt(pattern, s, i) ==
    /\ i + Len(pattern.atoms) - 1 <= Len(s)
    /\ \A k \in 1..Len(pattern.atoms) :
          AtomMatches(pattern.atoms[k], s[i + k - 1], pattern.ic)

\* pattern.search(s) finds a match.
Search(pattern, s) == \E i \in 1..Len(s) : MatchesAt(pattern, s, i)

\* ------------------------------------------------------------------------
\* pattern.sub(repl, name)
\* ------------------------------------------------------------------------

\* Escapes a replacement template knows: \a and \\ among the model's
\* characters.
TemplateEscape(c) ==
    CASE c = "a" -> "u0007"
      [] c = "\\" -> "\\"
      [] OTHER -> c

\* The replacement template of pattern.sub, parsed from position i on, for a
\* pattern without groups: \\ is one backslash, \a is BEL, a backslash before
\* a digit is a group reference to a group that does not exist, a backslash
\* before another ASCII letter or at the end is a bad escape, a backslash
\* before anything else stays. ok is FALSE where re.error is raised.
RECURSIVE ParseTemplate(_, _)
ParseTemplate(repl, i) ==
    IF i > Len(repl) THEN [ok |-> TRUE, text |-> <<>>]
    ELSE IF repl[i] # "\\"
    THEN LET rest == ParseTemplate(repl, i + 1)
         IN  [ok |-> rest.ok, text |-> <<repl[i]>> \o rest.text]
    ELSE IF i = Len(repl) THEN [ok |-> FALSE, text |-> <<>>]
    ELSE LET c == repl[i + 1]
             rest == ParseTemplate(repl, i + 2)
         IN  IF c \in {"1", "2", "3", "4", "5", "6", "7", "8", "9"}
             THEN [ok |-> FALSE, text |-> <<>>]
             ELSE IF c \in {"a", "\\"}
             THEN [ok |-> rest.ok, text |-> <<TemplateEscape(c)>> \o rest.text]
             ELSE IF c \in ASCII_LETTERS
             THEN [ok |-> FALSE, text |-> <<>>]
             ELSE [ok |-> rest.ok, text |-> <<"\\", c>> \o rest.text]

\* The scan of pattern.sub from position i on: leftmost matches, none
\* overlapping, each replaced by text.
RECURSIVE SubFrom(_, _, _, _)
SubFrom(pattern, text, s, i) ==
    IF i > Len(s) THEN <<>>
    ELSE IF MatchesAt(pattern, s, i)
    THEN text \o SubFrom(pattern, text, s, i + Len(pattern.atoms))
    ELSE <<s[i]>> \o SubFrom(pattern, text, s, i + 1)

\* The positions of s the scan of pattern.sub consumes in a match.
RECURSIVE Consumed(_, _, _)
Consumed(pattern, s, i) ==
    IF i > Len(s) THEN {}
    ELSE IF MatchesAt(pattern, s, i)
    THEN (i..(i + Len(pattern.atoms) - 1))
            \cup Consumed(pattern, s, i + Len(pattern.atoms))
    ELSE Consumed(pattern, s, i + 1)

\* ------------------------------------------------------------------------
\* propose_new_name: raised is TRUE where pattern.sub raises re.error.
\* ------------------------------------------------------------------------

\* propose_new_name with the two lines swapped: the name is normalised first
\* and the substitution made after.
propose_new_name_pre(name, pattern, mode, replacement) ==
    LET t == ParseTemplate(IF mode = "delete" THEN <<>> ELSE replacement, 1)
    IN  IF ~t.ok THEN [raised |-> TRUE, value |-> <<>>]
        ELSE [raised |-> FALSE,
              value |-> SubFrom(pattern, t.text, normalize_spaces(name), 1)]

propose_new_name(name, pattern, mode, replacement) ==
    LET t == ParseTemplate(IF mode = "delete" THEN <<>> ELSE replacement, 1)
    IN  IF ~t.ok THEN [raised |-> TRUE, value |-> <<>>]
        ELSE [raised |-> FALSE,
              value |-> normalize_spaces(SubFrom(pattern, t.text, name, 1))]

\* ------------------------------------------------------------------------
\* Paths and the file system
\* ------------------------------------------------------------------------

\* A path is <<directory, name>>. The target directory "top" holds regular
\* files and one subdirectory, whose files are at <<"sub", name>>.
SubDirPath == <<"top", <<"a", "a">>>>

\* Path.with_name raises ValueError for an empty name, for "." and for a
\* name with a separator.
InvalidName(new_name) ==
    \/ new_name = <<>>
    \/ new_name = <<".">>
    \/ \E i \in 1..Len(new_name) : new_name[i] = "/"

\* root / new_name in place of p.with_name(new_name): the file moves to the
\* target directory.
with_name_in_root(p, new_name) == <<"top", new_name>>

\* p.with_name(new_name): the directory stays.
with_name(p, new_name) == <<p[1], new_name>>

\* p.is_file(), for a file system files: path -> the file at that path.
is_file(files, p) == p \in DOMAIN files

\* p.exists(): a regular file or the subdirectory.
exists(files, p) == p \in DOMAIN files \/ p = SubDirPath

\* What root.glob("*") or root.rglob("*") yields.
Globbed(files, rec) ==
    {p \in DOMAIN files \cup {SubDirPath} : p[1] = "top" \/ rec}

iter_files(files, rec) == {p \in Globbed(files, rec) : is_file(files, p)}

\* os.rename(src, dst) when it succeeds.
Renamed(files, src, dst) ==
    [p \in (DOMAIN files \ {src}) \cup {dst} |->
        IF p = dst THEN files[src] ELSE files[p]]

\* Line 162 with the typo dst == src: no distinct target ever collides.
CollidesSameOnly(files, src, dst) == exists(files, dst) /\ dst = src

\* Line 162: dst.exists() and dst != src.
Collides(files, src, dst) == exists(files, dst) /\ dst # src

\* ------------------------------------------------------------------------
\* is_dangerous_root: resolved is what target.resolve() gives, or
\* "RESOLVE_ERROR" where it raises.
\* ------------------------------------------------------------------------
is_dangerous_root_no_home(resolved, home_dir) ==
    IF resolved = "RESOLVE_ERROR" THEN FALSE
    ELSE resolved = "/"

is_dangerous_root(resolved, home_dir) ==
    IF resolved = "RESOLVE_ERROR" THEN FALSE
    ELSE resolved = "/" \/ resolved = home_dir

\* ------------------------------------------------------------------------
\* State
\* ------------------------------------------------------------------------
VARIABLES
    target,        \* args.target resolved: "/", "home", "dir", or "nodir"
    phrase,        \* args.phrase
    mode,          \* args.mode
    replacement,   \* args.replacement
    ignore_case,   \* args.ignore_case
    loose,         \* args.loose
    recursive,     \* args.recursive
    apply,         \* args.apply
    force,         \* args.force
    list_matches,  \* args.list_matches
    fs,            \* the file system: path -> the file (named by the path
                   \* it had when the run began)
    files0,        \* the paths of the regular files when the run began
    pc,            \* where main is
    exit_code,     \* the process exit status
    scans,         \* how many times iter_files was started
    listed,        \* the names printed as [MATCH]
    changes,       \* the plan: a sequence of <<src, dst>>
    total_checked, \* total_checked
    idx,           \* the entry of changes the loop is at
    collisions,    \* collisions
    errors,        \* errors
    renamed,       \* renamed
    out,           \* the line printed for each entry of changes
    changed,       \* changed_if_apply, as printed in the summary
    name,          \* propose_new_name applied alone: its name argument
    new,           \* its result
    new2,          \* its result when applied to that result
    fpc            \* where that application is

optvars == <<target, phrase, mode, replacement, ignore_case, loose,
             recursive, apply, force, list_matches>>
mainvars == <<fs, files0, pc, exit_code, scans, listed, changes,
              total_checked, idx, collisions, errors, renamed, out, changed>>
fnvars == <<name, new, new2, fpc>>
vars == <<optvars, mainvars, fnvars>>

\* The compiled pattern of the run.
Pattern == build_pattern(phrase, ignore_case, loose)

\* ------------------------------------------------------------------------
\* Input sets
\* ------------------------------------------------------------------------

\* All sequences over S of length lo..hi.
SeqsOf(S, lo, hi) == UNION {[1..n -> S] : n \in lo..hi}

\* File names, phrases and replacements of the runs of main.
MainNames == {<<"x">>, <<"a">>, <<"a", "x">>, <<"x", "a">>, <<"a", " ", "x">>}
MainPhrases == {<<"x">>}
MainRepls == {<<"a", "x">>, <<"a">>}
MainPaths == ({"top", "sub"} \X MainNames) \ {SubDirPath}

\* The sets of at most k paths.
RECURSIVE SetsUpTo(_)
SetsUpTo(k) ==
    IF k = 0 THEN {{}}
    ELSE LET smaller == SetsUpTo(k - 1)
         IN  smaller \cup {S \cup {p} : S \in smaller, p \in MainPaths}

FileSets == SetsUpTo(MaxFiles)

\* All orders in which a set of paths can be enumerated.
RECURSIVE Orders(_)
Orders(S) ==
    IF S = {} THEN {<<>>}
    ELSE UNION {{<<p>> \o o : o \in Orders(S \ {p})} : p \in S}

\* ------------------------------------------------------------------------
\* collect_changes
\* ------------------------------------------------------------------------

\* The proposal for one file.
Proposal(p) == propose_new_name(p[2], Pattern, mode, replacement)

\* collect_changes raises: pattern.sub raises re.error or with_name raises
\* ValueError on a changed name.
CollectRaises(scope) ==
    \E p \in scope :
        \/ Proposal(p).raised
        \/ Proposal(p).value # p[2] /\ InvalidName(Proposal(p).value)

\* The plan over the files in the order given.
RECURSIVE PlanOf(_)
PlanOf(order) ==
    IF order = <<>> THEN <<>>
    ELSE LET p == Head(order)
             new_name == Proposal(p).value
         IN  (IF new_name # p[2] THEN <<<<p, with_name(p, new_name)>>>> ELSE <<>>)
                \o PlanOf(Tail(order))

\* ------------------------------------------------------------------------
\* main
\* ------------------------------------------------------------------------
InitFnIdle ==
    /\ name = <<>>
    /\ new = [raised |-> FALSE, value |-> <<>>]
    /\ new2 = [raised |-> FALSE, value |-> <<>>]
    /\ fpc = "idle"

Init ==
    /\ target \in {"/", "home", "dir", "nodir"}
    /\ phrase \in MainPhrases
    /\ \/ mode = "delete" /\ replacement = <<>>
       \/ mode = "replace" /\ replacement \in MainRepls
    /\ ignore_case = FALSE
    /\ loose = FALSE
    /\ recursive \in BOOLEAN
    /\ apply \in BOOLEAN
    /\ force \in BOOLEAN
    /\ list_matches \in BOOLEAN
    /\ \E S \in FileSets : fs = [p \in S |-> p] /\ files0 = S
    /\ pc = "start"
    /\ exit_code = 0
    /\ scans = 0
    /\ listed = {}
    /\ changes = <<>>
    /\ total_checked = 0
    /\ idx = 1
    /\ collisions = 0
    /\ errors = 0
    /\ renamed = 0
    /\ out = <<>>
    /\ changed = 0
    /\ InitFnIdle

\* Lines 124-127: not a directory, exit 1.
CheckDir ==
    /\ pc = "start"
    /\ IF target = "nodir"
       THEN pc' = "exited" /\ exit_code' = 1
       ELSE pc' = "gate" /\ UNCHANGED exit_code
    /\ UNCHANGED <<optvars, fnvars, fs, files0, scans, listed, changes,
                   total_checked, idx, collisions, errors, renamed, out, changed>>

\* Lines 129-132: the safety gate. root is resolved already, so resolving
\* it again gives root.
SafetyGate ==
    /\ pc = "gate"
    /\ IF is_dangerous_root(target, "home") /\ ~force
       THEN pc' = "exited" /\ exit_code' = 2
       ELSE pc' = "list" /\ UNCHANGED exit_code
    /\ UNCHANGED <<optvars, fnvars, fs, files0, scans, listed, changes,
                   total_checked, idx, collisions, errors, renamed, out, changed>>

\* Lines 134-145: the list-matches pre-pass.
ListMatches ==
    /\ pc = "list"
    /\ IF list_matches
       THEN /\ scans' = scans + 1
            /\ listed' = {p[2] : p \in {q \in iter_files(fs, recursive) :
                                            Search(Pattern, q[2])}}
       ELSE UNCHANGED <<scans, listed>>
    /\ pc' = "collect"
    /\ UNCHANGED <<optvars, fnvars, fs, files0, exit_code, changes,
                   total_checked, idx, collisions, errors, renamed, out, changed>>

\* Lines 147-152: collect_changes raises and the traceback ends the process.
CollectCrash ==
    /\ pc = "collect"
    /\ CollectRaises(iter_files(fs, recursive))
    /\ scans' = scans + 1
    /\ pc' = "crashed"
    /\ exit_code' = 1
    /\ UNCHANGED <<optvars, fnvars, fs, files0, listed, changes,
                   total_checked, idx, collisions, errors, renamed, out, changed>>

\* Lines 147-152: collect_changes over the files in some order; without
\* changes main returns.
Collect ==
    /\ pc = "collect"
    /\ ~CollectRaises(iter_files(fs, recursive))
    /\ \E order \in Orders(iter_files(fs, recursive)) :
          /\ changes' = PlanOf(order)
          /\ total_checked' = Len(order)
    /\ scans' = scans + 1
    /\ pc' = IF changes' = <<>> THEN "returned" ELSE "exec"
    /\ UNCHANGED <<optvars, fnvars, fs, files0, exit_code, listed,
                   idx, collisions, errors, renamed, out, changed>>

\* Lines 162-165: the target exists, the entry is skipped.
SkipCollision ==
    /\ pc = "exec" /\ idx <= Len(changes)
    /\ LET src == changes[idx][1]
           dst == changes[idx][2]
       IN  Collides(fs, src, dst)
    /\ out' = Append(out, "SKIP")
    /\ collisions' = collisions + 1
    /\ idx' = idx + 1
    /\ UNCHANGED <<optvars, fnvars, fs, files0, pc, exit_code, scans, listed,
                   changes, total_checked, errors, renamed, changed>>

\* The rename without the test of line 167: made whether or not --apply is
\* given.
RenameOkAnyMode ==
    /\ pc = "exec" /\ idx <= Len(changes)
    /\ LET src == changes[idx][1]
           dst == changes[idx][2]
       IN  /\ ~Collides(fs, src, dst)
           /\ src \in DOMAIN fs
           /\ fs' = Renamed(fs, src, dst)
    /\ out' = Append(out, "RENAME")
    /\ renamed' = renamed + 1
    /\ idx' = idx + 1
    /\ UNCHANGED <<optvars, fnvars, files0, pc, exit_code, scans, listed,
                   changes, total_checked, collisions, errors, changed>>

\* Lines 167-171: the rename succeeds.
RenameOk ==
    /\ pc = "exec" /\ idx <= Len(changes)
    /\ LET src == changes[idx][1]
           dst == changes[idx][2]
       IN  /\ ~Collides(fs, src, dst)
           /\ apply
           /\ src \in DOMAIN fs
           /\ fs' = Renamed(fs, src, dst)
    /\ out' = Append(out, "RENAME")
    /\ renamed' = renamed + 1
    /\ idx' = idx + 1
    /\ UNCHANGED <<optvars, fnvars, files0, pc, exit_code, scans, listed,
                   changes, total_checked, collisions, errors, changed>>

\* The rename raises and nothing catches it: the traceback ends the process.
RenameErrorUncaught ==
    /\ pc = "exec" /\ idx <= Len(changes)
    /\ LET src == changes[idx][1]
           dst == changes[idx][2]
       IN  /\ ~Collides(fs, src, dst)
           /\ apply
    /\ out' = Append(out, "ERROR")
    /\ errors' = errors + 1
    /\ pc' = "crashed"
    /\ exit_code' = 1
    /\ UNCHANGED <<optvars, fnvars, fs, files0, scans, listed, idx,
                   changes, total_checked, collisions, renamed, changed>>

\* Lines 172-174: the rename raises (permission, a name the file system
\* refuses, a source that is gone) and the exception is caught.
RenameError ==
    /\ pc = "exec" /\ idx <= Len(changes)
    /\ LET src == changes[idx][1]
           dst == changes[idx][2]
       IN  /\ ~Collides(fs, src, dst)
           /\ apply
    /\ out' = Append(out, "ERROR")
    /\ errors' = errors + 1
    /\ idx' = idx + 1
    /\ UNCHANGED <<optvars, fnvars, fs, files0, pc, exit_code, scans, listed,
                   changes, total_checked, collisions, renamed, changed>>

\* Lines 175-176: the preview line.
DryRun ==
    /\ pc = "exec" /\ idx <= Len(changes)
    /\ LET src == changes[idx][1]
           dst == changes[idx][2]
       IN  /\ ~Collides(fs, src, dst)
           /\ ~apply
    /\ out' = Append(out, "DRY-RUN")
    /\ idx' = idx + 1
    /\ UNCHANGED <<optvars, fnvars, fs, files0, pc, exit_code, scans, listed,
                   changes, total_checked, collisions, errors, renamed, changed>>

\* Lines 178-186: the summary; main returns.
Summary ==
    /\ pc = "exec" /\ idx > Len(changes)
    /\ changed' = IF apply THEN renamed ELSE Len(changes) - collisions
    /\ pc' = "summary"
    /\ UNCHANGED <<optvars, fnvars, fs, files0, exit_code, scans, listed,
                   changes, total_checked, idx, collisions, errors, renamed, out>>

Next ==
    \/ CheckDir
    \/ SafetyGate
    \/ ListMatches
    \/ CollectCrash
    \/ Collect
    \/ SkipCollision
    \/ RenameOk
    \/ RenameError
    \/ DryRun
    \/ Summary

Spec == Init /\ [][Next]_vars

\* ------------------------------------------------------------------------
\* propose_new_name applied alone
\* ------------------------------------------------------------------------

\* Inputs that exercise normalize_spaces.
SpaceInputs ==
    [name : SeqsOf({"a", " ", "u00A0", "."}, 1, MaxNameLen),
     phrase : SeqsOf({"a", ".", " "}, 1, MaxPhraseLen),
     ignore_case : {FALSE}, loose : BOOLEAN,
     mode : {"delete"}, replacement : {<<>>}]

\* Inputs that exercise the hyphen class, the case flag and NFKC.
HyphenInputs ==
    [name : SeqsOf({"a", "-", "u2013", "uFF21", "uFF41"}, 1, MaxHyphenNameLen),
     phrase : SeqsOf({"a", "-", "uFF21"}, 1, MaxPhraseLen),
     ignore_case : BOOLEAN, loose : BOOLEAN,
     mode : {"delete"}, replacement : {<<>>}]

\* Inputs that exercise the replacement text.
ReplaceInputs ==
    [name : SeqsOf({"a", "x"}, 1, MaxNameLen),
     phrase : {<<"x">>},
     ignore_case : {FALSE}, loose : {FALSE},
     mode : {"replace"}, replacement : SeqsOf({"\\", "1", "a"}, 0, MaxReplLen)]

InitMainIdle ==
    /\ target = "dir"
    /\ recursive = FALSE
    /\ apply = FALSE
    /\ force = FALSE
    /\ list_matches = FALSE
    /\ fs = [p \in {} |-> p]
    /\ files0 = {}
    /\ pc = "idle"
    /\ exit_code = 0
    /\ scans = 0
    /\ listed = {}
    /\ changes = <<>>
    /\ total_checked = 0
    /\ idx = 1
    /\ collisions = 0
    /\ errors = 0
    /\ renamed = 0
    /\ out = <<>>
    /\ changed = 0

InitPropose ==
    /\ \E in \in SpaceInputs \cup HyphenInputs \cup ReplaceInputs :
          /\ name = in.name
          /\ phrase = in.phrase
          /\ ignore_case = in.ignore_case
          /\ loose = in.loose
          /\ mode = in.mode
          /\ replacement = in.replacement
    /\ new = [raised |-> FALSE, value |-> <<>>]
    /\ new2 = [raised |-> FALSE, value |-> <<>>]
    /\ fpc = "input"
    /\ InitMainIdle

\* propose_new_name(name, pattern, mode, replacement)
Propose ==
    /\ fpc = "input"
    /\ new' = propose_new_name(name, Pattern, mode, replacement)
    /\ fpc' = "proposed"
    /\ UNCHANGED <<optvars, mainvars, name, new2>>

\* propose_new_name applied to the name it returned.
Repropose ==
    /\ fpc = "proposed"
    /\ ~new.raised
    /\ new2' = propose_new_name(new.value, Pattern, mode, replacement)
    /\ fpc' = "reproposed"
    /\ UNCHANGED <<optvars, mainvars, name, new>>

NextPropose ==
    \/ Propose
    \/ Repropose

SpecPropose == InitPropose /\ [][NextPropose]_vars

\* ------------------------------------------------------------------------
\* Properties of main (under Spec)
\* ------------------------------------------------------------------------

\* No path was touched: every file is at the path it began at.
Untouched == fs = [p \in files0 |-> p]

\* Entries i < j of the plan propose the same target, nothing existed there
\* when the run began, and i is the first entry that proposes it.
SameTarget(i, j) ==
    /\ i \in 1..Len(changes) /\ j \in 1..Len(changes) /\ i < j
    /\ changes[i][2] = changes[j][2]
    /\ changes[i][2] \notin files0 /\ changes[i][2] # SubDirPath
    /\ \A k \in 1..(i - 1) : changes[k][2] # changes[i][2]

\* C1: without --apply the file system is never changed, at any point of
\* the run and whatever the plan holds, and the renamed counter stays 0.
C1_DryRunLeavesFiles == ~apply => (Untouched /\ renamed = 0)

\* A dry run that reached the summary with a previewed entry and a collision.
C1_Witness ==
    /\ ~apply /\ pc = "summary"
    /\ collisions > 0 /\ Len(changes) > collisions
    /\ Untouched

C3_ErrorIsolation ==
    (apply /\ errors > 0) =>
        /\ pc \in {"exec", "summary"}
        /\ exit_code = 0
        /\ Len(out) = idx - 1
        /\ collisions + errors + renamed = Len(out)
        /\ errors = Cardinality({i \in 1..Len(out) : out[i] = "ERROR"})
        /\ (pc = "exec" => ENABLED Next)
        /\ (pc = "summary" => Len(out) = Len(changes))

\* A run that reached the summary after a failed rename followed by a
\* successful one.
C3_Witness ==
    /\ apply /\ pc = "summary" /\ exit_code = 0
    /\ \E i, j \in 1..Len(out) : i < j /\ out[i] = "ERROR" /\ out[j] = "RENAME"

\* C4: on the file system root or the home directory without --force the run
\* never gets past the gate: it ends with status 2 with no enumeration made,
\* nothing listed, nothing planned and no file touched. Status 1 is the
\* invalid directory and nothing else ends that way at the gate; with
\* --force the gate never refuses: the run passes it.
C4_SafetyGate ==
    /\ (target \in {"/", "home"} /\ ~force) =>
          /\ pc \in {"start", "gate", "exited"}
          /\ (pc = "exited" => exit_code = 2)
          /\ scans = 0 /\ listed = {} /\ changes = <<>> /\ out = <<>>
          /\ Untouched
    /\ (pc = "exited" /\ exit_code = 2) => (target \in {"/", "home"} /\ ~force)
    /\ (pc = "exited" /\ exit_code = 1) <=> (pc = "exited" /\ target = "nodir")
    /\ (target \in {"/", "home"} /\ force) =>
          /\ pc # "exited"
          /\ (pc = "gate" => ENABLED SafetyGate)

\* The home directory, with files in it and --list-matches, refused.
C4_Witness ==
    /\ target = "home" /\ ~force /\ list_matches /\ files0 # {}
    /\ pc = "exited" /\ exit_code = 2

\* C5 as stated: in a dry run, of two entries with the same target the first
\* is previewed and the second is reported and counted as a collision, so
\* that the changed count is the number of renames an apply run would make.
C5_PreviewDetectsCollision ==
    (~apply /\ pc = "summary") =>
        \A i, j \in 1..Len(changes) :
            SameTarget(i, j) =>
                /\ out[i] = "DRY-RUN"
                /\ out[j] = "SKIP"
                /\ collisions >= 1
                /\ changed < Len(changes)

\* The path the file that began at f is proposed to move to.
ProposedPath(f) ==
    IF Proposal(f).raised THEN f ELSE <<f[1], Proposal(f).value>>

\* C10: in an apply run no file is lost or overwritten: at every point there
\* are as many regular files as at the start, and every file that was there
\* is at exactly one path, its original path or its proposed path in the
\* same directory.
C10_NoFileLost ==
    apply =>
        /\ Cardinality(DOMAIN fs) = Cardinality(files0)
        /\ \A f \in files0 :
              /\ Cardinality({p \in DOMAIN fs : fs[p] = f}) = 1
              /\ \A p \in DOMAIN fs :
                    fs[p] = f => (p = f \/ p = ProposedPath(f))

\* An apply run in which an entry was renamed to the original path of
\* another entry.
C10_Witness ==
    /\ apply /\ pc = "summary"
    /\ \E i, j \in 1..Len(changes) :
          /\ i # j
          /\ changes[i][2] = changes[j][1]
          /\ out[i] = "RENAME" /\ out[j] = "RENAME"

\* ------------------------------------------------------------------------
\* Properties of propose_new_name (under SpecPropose)
\* ------------------------------------------------------------------------

\* C6 as stated: a name in which the pattern has no occurrence is proposed
\* unchanged, so collect_changes has no entry for it (new_name = p.name).
C6_NoMatchNoEntry ==
    (fpc = "proposed" /\ mode = "delete" /\ ~Search(Pattern, name)) =>
        (~new.raised /\ new.value = name)

\* C7 as stated, for the names the first pass found the phrase in: in delete
\* mode proposing again changes nothing,
\* propose_new_name(propose_new_name(n)) = propose_new_name(n).
C7_Idempotent ==
    (fpc = "reproposed" /\ mode = "delete" /\ Search(Pattern, name)) =>
        new2 = new

\* C7 amended: in delete mode, a proposed name in which the pattern has no
\* occurrence left is proposed unchanged when the planner runs again, and
\* normalize_spaces leaves it as it is.
C7_IdempotentOnceRemoved ==
    (fpc = "reproposed" /\ mode = "delete" /\ ~Search(Pattern, new.value)) =>
        /\ new2 = new
        /\ normalize_spaces(new.value) = new.value

\* A name with an occurrence whose proposal was also tidied by
\* normalize_spaces, is not empty, and comes back unchanged.
C7_Witness ==
    /\ fpc = "reproposed" /\ mode = "delete"
    /\ Search(Pattern, name)
    /\ ~Search(Pattern, new.value)
    /\ new.value # <<>>
    /\ new.value # SubFrom(Pattern, <<>>, name, 1)
    /\ new2 = new

\* The phrase is written with the plain hyphen-minus, which is its dash at
\* position k.
PlainHyphenAt(k) ==
    /\ k \in 1..Len(phrase)
    /\ phrase[k] = "-"
    /\ \A m \in 1..Len(phrase) : phrase[m] \in HYPHENS_CLASS => phrase[m] = "-"

\* The name holds the phrase, as written, at position i.
OccursAt(i) ==
    /\ i \in 1..Len(name)
    /\ i + Len(phrase) - 1 <= Len(name)
    /\ \A m \in 1..Len(phrase) : name[i + m - 1] = phrase[m]

\* The name holds the phrase, as written, at one position at most.
OccursOnce == \A i, j \in 1..Len(name) : (OccursAt(i) /\ OccursAt(j)) => i = j

\* The name with the character at position q replaced by d.
Variant(q, d) == [name EXCEPT ![q] = d]

\* The proposal, in delete mode, for a variant of the name.
VariantProposal(q, d) ==
    propose_new_name(Variant(q, d), Pattern, "delete", <<>>).value

\* With loose unset, the dash of a variant that is not the hyphen-minus is in
\* no match: the proposed name keeps it.
StrictKeepsVariants ==
    (fpc = "proposed" /\ mode = "delete" /\ ~loose) =>
        \A i \in 1..Len(name), k \in 1..Len(phrase) :
            (OccursAt(i) /\ PlainHyphenAt(k)) =>
                \A d \in HYPHENS_CLASS \ {"-"} :
                    (i + k - 1) \notin Consumed(Pattern, Variant(i + k - 1, d), 1)

\* C8 as stated, for the phrases NFKC leaves as they are and the names that
\* hold the phrase at one position only: with loose set, the names that differ only by the member of the hyphen class at the dash
\* of the phrase all get the same proposed name in delete mode; with loose
\* unset none of the other variants is matched.
C8_LooseVariantsAgree ==
    /\ (fpc = "proposed" /\ mode = "delete" /\ loose /\ NFKC(phrase) = phrase) =>
          \A i \in 1..Len(name), k \in 1..Len(phrase) :
              (OccursAt(i) /\ OccursOnce /\ PlainHyphenAt(k)) =>
                  \A d \in HYPHENS_CLASS :
                      VariantProposal(i + k - 1, d) = new.value
    /\ StrictKeepsVariants

\* C8 amended: the variants get the same proposed name whenever the
\* substitution of the loose pattern removes the dash of the occurrence in
\* the hyphen-minus spelling.
C8_LooseVariantsAgreeWhereMatched ==
    /\ (fpc = "proposed" /\ mode = "delete" /\ loose) =>
          \A i \in 1..Len(name), k \in 1..Len(phrase) :
              (/\ OccursAt(i) /\ PlainHyphenAt(k)
               /\ (i + k - 1) \in Consumed(Pattern, name, 1)) =>
                  \A d \in HYPHENS_CLASS :
                      VariantProposal(i + k - 1, d) = new.value
    /\ StrictKeepsVariants

\* A name with the phrase in it, the dash removed by the loose pattern, and
\* something left of the name.
C8_Witness ==
    /\ fpc = "proposed" /\ mode = "delete" /\ loose
    /\ new.value # <<>>
    /\ \E i \in 1..Len(name), k \in 1..Len(phrase) :
          /\ OccursAt(i) /\ PlainHyphenAt(k)
          /\ (i + k - 1) \in Consumed(Pattern, name, 1)
          /\ VariantProposal(i + k - 1, "u2014") = new.value

\* C9 as stated: in replace mode every occurrence becomes exactly the
\* characters of the replacement text, before normalisation, and nothing is
\* raised; in delete mode every occurrence is removed.
C9_VerbatimReplacement ==
    /\ (fpc = "proposed" /\ mode = "replace") =>
          /\ ~new.raised
          /\ new.value = normalize_spaces(SubFrom(Pattern, replacement, name, 1))
    /\ (fpc = "proposed" /\ mode = "delete") =>
          /\ ~new.raised
          /\ new.value = normalize_spaces(SubFrom(Pattern, <<>>, name, 1))

====
